---- MODULE Spec2Model ----
(***************************************************************************)
(* Model of src/src/components/SceneCanvas.tsx: the frame callbacks of the *)
(* "Miniature Valley Chase" scene (SceneContent, GrassField, Wheel,        *)
(* AnimatedEyes, DustEmitter), the React state of SceneCanvas and its      *)
(* overlay, and the procedural builders (Road, GrassField's placement      *)
(* loop, StoneScatter).                                                    *)
(*                                                                         *)
(* Numbers.  The program computes in floating point; the model computes in *)
(* exact rational arithmetic on integers:                                  *)
(*   - time is counted in ticks, TicksPerSecond ticks to the second;       *)
(*   - raw progress is a numerator over Denom (= 8 s in ticks);            *)
(*   - eased progress is a numerator over Unit = Denom^5, the denominator  *)
(*     of the degree-5 smootherstep polynomial;                            *)
(*   - Nino's progress is a pair <<w, f>> standing for (w + f/1250)/U,     *)
(*     0 <= f < 1250, which holds (e - 0.16) * 0.94 exactly without        *)
(*     leaving 32-bit integers.                                            *)
(***************************************************************************)
EXTENDS Integers, Sequences, FiniteSets

VARIABLES
    \* ---- the render loop and SceneContent (lines 25-137) ----
    clock,           \* state.clock.elapsedTime, in ticks
    delta,           \* the frame's delta, in ticks
    subscribers,     \* the loop's useFrame callbacks, in call order
    cursor,          \* 0: between frames; k: subscribers[k] is the next to run
    attached,        \* the refs whose .current is set
    startTime,       \* startTimeRef.current: Null or <<t>>
    cachedProgress,  \* cachedProgressRef.current (numerator over Unit)
    elapsed,         \* the last SceneContent frame's elapsed: Null or <<ticks>>
    raw,             \* the last SceneContent frame's raw (numerator over Denom)
    eased,           \* the last SceneContent frame's eased (numerator over Unit)
    reported,        \* whether that frame invoked onProgress
    jaxProgress,     \* that frame's jaxProgress (numerator over Unit)
    ninoProgress,    \* that frame's ninoProgress (<<w, f>> over Unit)
    node,            \* node -> the transform last written to it (<<>>: as mounted)
    written,         \* the nodes the last SceneContent frame wrote
    access,          \* history: the <<callback, node, "r"/"w">> accesses made so far
    \* ---- SceneCanvas and SceneOverlay (lines 573-662) ----
    progress,        \* SceneCanvas's progress state (numerator over Unit)
    dirty,           \* a setProgress is waiting for its re-render
    overlay,         \* what SceneOverlay last rendered: [speaker, align]
    handleProgress,  \* identity (generation) of the onProgress callback
    curve,           \* identity (generation) of SceneContent's curve
    \* ---- the pure function under test for Nino's lag (line 69) ----
    ninoIn,          \* an eased value (numerator over EasedGrid)
    ninoOut,         \* Null or [jax, nino]: the two progresses computed from it
    \* ---- GrassField's placement effect (lines 235-261) ----
    grassPc,         \* "effect", "while", "body" or "done"
    grassMounted,    \* whether meshRef.current is set when the effect runs
    filled,          \* the loop's fill counter
    matrixCount,     \* number of setMatrixAt calls made
    lastIndex,       \* Null or <<index>> of the last setMatrixAt
    grassLast,       \* Null or the iteration's candidate: [x, z, placed]
    needsUpdate,     \* instanceMatrix.needsUpdate
    \* ---- StoneScatter's useMemo (lines 283-301) ----
    stonePc,         \* "for", "body" or "done"
    stoneI,          \* the loop index i
    stoneCount,      \* list.length
    stoneRejected,   \* history: iterations that took the continue
    stoneDraws,      \* history: number of rand() calls made
    stoneLast,       \* Null or the stone the iteration pushed: [x, z, scale]
    \* ---- Road's geometry useMemo (lines 142-201) ----
    roadPc,          \* "quad", "normals", "uvs" or "done"
    roadI,           \* the loop index i
    roadFace,        \* the inner loop index face
    roadQuads,       \* per quad, the curve parameters used: [start, end]
    vertices,        \* vertices.length
    normals,         \* normals.length
    uvs,             \* uvs.length
    roadBuffer       \* Null or the item counts of the buffer's attributes

frameVars == <<clock, delta, subscribers, cursor, attached, startTime,
               cachedProgress, elapsed, raw, eased, reported, jaxProgress,
               ninoProgress, node, written, access>>
reactVars == <<progress, dirty, overlay, handleProgress, curve>>
ninoVars == <<ninoIn, ninoOut>>
grassVars == <<grassPc, grassMounted, filled, matrixCount, lastIndex, grassLast, needsUpdate>>
stoneVars == <<stonePc, stoneI, stoneCount, stoneRejected, stoneDraws, stoneLast>>
roadVars == <<roadPc, roadI, roadFace, roadQuads, vertices, normals, uvs, roadBuffer>>
sceneVars == <<frameVars, reactVars>>
builderVars == <<ninoVars, grassVars, stoneVars, roadVars>>

\* ------------------------------------------------------------------ bounds
\* Clock resolution: ticks per second.
TicksPerSecond == 3
\* The largest clock advance between two frames, in ticks (0 is allowed: the
\* clock is non-decreasing).
MaxStep == 2
\* How many ticks past the end of the animation the clock is followed.
Overrun == 2
\* Resolution of the eased values fed to NinoProgress on its own.
EasedGrid == 100
\* Resolution of the generator's values: rand() is k / RandGrid, k < RandGrid.
RandGrid == 10
\* Resolution of the generator's values where they only size a stone.
ScaleGrid == 3

\* --------------------------------------------------------------- constants
ANIMATION_DURATION == 8
NumWheels == 4
instances == 600
stoneAttempts == 80
divisions == 90

Null == <<>>

\* The animation's duration in ticks: raw = elapsed / ANIMATION_DURATION is
\* (elapsed in ticks) / Denom.
Denom == ANIMATION_DURATION * TicksPerSecond
\* Denominator of eased values.
Unit == Denom * Denom * Denom * Denom * Denom
MaxClock == MaxStep + Denom + Overrun

\* ----------------------------------------------------------------- helpers
Abs(x) == IF x < 0 THEN -x ELSE x
Min(a, b) == IF a <= b THEN a ELSE b
Max(a, b) == IF a >= b THEN a ELSE b

\* THREE.MathUtils.clamp(value, min, max) = max(min, min(max, value)).
Clamp(value, lo, hi) == Max(lo, Min(hi, value))

\* Mutant of Raw: the animation loops, raw wraps around after 8 s.
RawLooping(el) == Clamp(el % Denom, 0, Denom)

\* raw = clamp(elapsed / ANIMATION_DURATION, 0, 1), as a numerator over Denom.
Raw(el) == Clamp(el, 0, Denom)

\* THREE.MathUtils.smootherstep(x, 0, 1) = x^3 (x (6x - 15) + 10) inside (0, 1),
\* 0 at or below 0, 1 at or above 1.  x = r/Denom; the result is over Unit.
Smootherstep(r) ==
    IF r <= 0 THEN 0
    ELSE IF r >= Denom THEN Unit
    ELSE r * r * r * (r * (6 * r - 15 * Denom) + 10 * Denom * Denom)

\* Mutant of ShouldReport: no threshold, every change is reported.
ShouldReportAnyChange(cached, e) == cached # e

\* Math.abs(cached - eased) > 0.001, both numerators over Unit.  For integers
\* d and U, d / U > 1/1000 iff d > U \div 1000.
ShouldReport(cached, e) == Abs(cached - e) > Unit \div 1000

\* Lexicographic order on <<w, f>> pairs (f < 1250): the order of their values.
PairLeq(a, b) == a[1] < b[1] \/ (a[1] = b[1] /\ a[2] <= b[2])

\* Mutant of NinoProgress: the Math.max(.., 0) is missing.
NinoProgressUnclamped(e, U) ==
    LET a == (4 * U) \div 25
        b == (4 * U) % 25
        q == (e - a) \div 50
        r == (e - a) % 50
        t == 1175 * r - 47 * b
    IN  <<47 * q + (t \div 1250), t % 1250>>

\* ninoProgress = Math.min(Math.max(eased - 0.16, 0) * 0.94, 0.98) for
\* eased = e/U, as <<w, f>> = (w + f/1250)/U.
\*   0.16 U = a + b/25;  eased - 0.16 > 0 iff e > a;
\*   (e - a - b/25) * 47/50 with e - a = 50 q + r is 47 q + (1175 r - 47 b)/1250;
\*   0.98 U = 49 U / 50.
NinoProgress(e, U) ==
    LET a == (4 * U) \div 25
        b == (4 * U) % 25
        q == (e - a) \div 50
        r == (e - a) % 50
        t == 1175 * r - 47 * b
        lagged == IF e <= a THEN <<0, 0>>
                  ELSE <<47 * q + (t \div 1250), t % 1250>>
        cap == <<49 * (U \div 50) + ((49 * (U % 50)) \div 50),
                 ((49 * (U % 50)) % 50) * 25>>
    IN  IF PairLeq(lagged, cap) THEN lagged ELSE cap

\* ------------------------------------------------------- nodes and callbacks
Wheels == 1 .. NumWheels
JaxGroup == <<"jaxGroup", 0>>
NinoGroup == <<"ninoGroup", 0>>
ToolBagGroup == <<"toolBagGroup", 0>>
Camera == <<"camera", 0>>
GrassMesh == <<"grassMesh", 0>>
WheelMesh(i) == <<"wheelMesh", i>>
LeftEye == <<"leftEye", 0>>
RightEye == <<"rightEye", 0>>
DustPoints == <<"dustPoints", 0>>

\* The nodes reached through a ref (.current may be null); the camera comes
\* from the frame state and is always there.
SceneRefs == {JaxGroup, NinoGroup, ToolBagGroup}
OtherRefs == {GrassMesh, LeftEye, RightEye, DustPoints} \cup {WheelMesh(i) : i \in Wheels}
Nodes == SceneRefs \cup OtherRefs \cup {Camera}

SceneContentCb == <<"SceneContent", 0>>
GrassFieldCb == <<"GrassField", 0>>
WheelCb(i) == <<"Wheel", i>>
AnimatedEyesCb == <<"AnimatedEyes", 0>>
DustEmitterCb == <<"DustEmitter", 0>>

\* The child components' callbacks in the order of the JSX (lines 110-125).
ChildCallbacks ==
    <<GrassFieldCb>> \o [i \in Wheels |-> WheelCb(i)] \o <<AnimatedEyesCb, DustEmitterCb>>

\* The loop calls its subscribers in subscription order; SceneContent's own
\* callback may come anywhere among its children's.
Orders ==
    { SubSeq(ChildCallbacks, 1, p) \o <<SceneContentCb>>
        \o SubSeq(ChildCallbacks, p + 1, Len(ChildCallbacks)) :
      p \in 0 .. Len(ChildCallbacks) }

\* ------------------------------------------------------------ React hooks
\* Mutant of UseRef: a fresh object on every render.
UseRefFresh(current, initial) == initial

\* useRef: the same ref object on every render; the initial value is used on
\* mount only.
UseRef(current, initial) == current
\* useMemo / useCallback: a new value (the next generation) only when a
\* dependency changed; with [] as dependencies none ever does.
UseMemo(generation, depsChanged) == IF depsChanged THEN generation + 1 ELSE generation

\* Mutant of SceneOverlay: the comparison is the wrong way round.
SceneOverlaySwapped(p) ==
    LET jaxActive == 2 * p > Unit
    IN  [speaker |-> IF jaxActive THEN "JAX" ELSE "NINO",
         align |-> IF jaxActive THEN "left" ELSE "right"]

\* SceneOverlay({progress}): one speech bubble, chosen by progress < 0.5.
SceneOverlay(p) ==
    LET jaxActive == 2 * p < Unit
    IN  [speaker |-> IF jaxActive THEN "JAX" ELSE "NINO",
         align |-> IF jaxActive THEN "left" ELSE "right"]

\* ------------------------------------------------------------------- Init
InitFrame ==
    /\ clock = 0
    /\ delta = 0
    /\ subscribers \in Orders
    /\ cursor = 0
    /\ attached \in {OtherRefs \cup s : s \in SUBSET SceneRefs}
    /\ startTime = Null
    /\ cachedProgress = 0
    /\ elapsed = Null
    /\ raw = 0
    /\ eased = 0
    /\ reported = FALSE
    /\ jaxProgress = 0
    /\ ninoProgress = <<0, 0>>
    /\ node = [n \in Nodes |-> IF n \in {WheelMesh(i) : i \in Wheels} THEN <<0>> ELSE <<>>]
    /\ written = {}
    /\ access = {}

InitReact ==
    /\ progress = 0
    /\ dirty = FALSE
    /\ overlay = SceneOverlay(0)
    /\ handleProgress = 1
    /\ curve = 1

InitNino ==
    /\ ninoIn = 0
    /\ ninoOut = Null

InitGrass ==
    /\ grassPc = "effect"
    /\ grassMounted = TRUE
    /\ filled = 0
    /\ matrixCount = 0
    /\ lastIndex = Null
    /\ grassLast = Null
    /\ needsUpdate = FALSE

InitStones ==
    /\ stonePc = "for"
    /\ stoneI = 0
    /\ stoneCount = 0
    /\ stoneRejected = 0
    /\ stoneDraws = 0
    /\ stoneLast = Null

InitRoad ==
    /\ roadPc = "quad"
    /\ roadI = 0
    /\ roadFace = 0
    /\ roadQuads = <<>>
    /\ vertices = 0
    /\ normals = 0
    /\ uvs = 0
    /\ roadBuffer = Null

InitBuilders == InitNino /\ InitGrass /\ InitStones /\ InitRoad

Init == InitFrame /\ InitReact /\ InitBuilders

\* ------------------------------------------------------- the render loop
Current == subscribers[cursor]

\* After a callback: on to the next subscriber, or the frame is over.
Advance == cursor' = IF cursor = Len(subscribers) THEN 0 ELSE cursor + 1

\* A frame begins: the clock has moved on by dt >= 0 ticks and the loop
\* starts calling its subscribers.
BeginFrame ==
    /\ cursor = 0
    /\ \E dt \in 0 .. MaxStep :
        /\ clock + dt <= MaxClock
        /\ clock' = clock + dt
        /\ delta' = dt
    /\ cursor' = 1
    /\ UNCHANGED <<subscribers, attached, startTime, cachedProgress, elapsed, raw,
                   eased, reported, jaxProgress, ninoProgress, node, written, access>>
    /\ UNCHANGED reactVars
    /\ UNCHANGED builderVars

\* The transforms SceneContent's callback writes, from the frame's values.
\*   Jax group: position on the curve at jaxProgress, facing along the tangent,
\*     wobble and bob from elapsed (lines 76-80).
\*   Nino group: position on the curve at ninoProgress, bob from elapsed,
\*     heading from the tangent at jaxProgress (lines 84-87).
\*   Tool bag: swing from elapsed and lerp(0.7, 0.08, eased) (lines 91-92).
\*   Camera: lerps by 1 - 0.0001^delta towards Jax's position plus the offset
\*     and looks at Jax (lines 95-100).
SceneTransform(n, e, jp, np, el, dt) ==
    CASE n = JaxGroup -> <<jp, el>>
      [] n = NinoGroup -> <<np[1], np[2], jp, el>>
      [] n = ToolBagGroup -> <<e, el>>
      [] n = Camera -> <<jp, dt>>

\* Mutant of SceneWrites: the camera follows only inside if (jaxRef.current).
SceneWritesCameraGuarded(att) ==
    (SceneRefs \cap att) \cup (IF JaxGroup \in att THEN {Camera} ELSE {})

\* The nodes SceneContent's callback writes in a frame: each group whose ref
\* is attached, and the camera.
SceneWrites(att) == (SceneRefs \cap att) \cup {Camera}

\* SceneContent's useFrame callback (lines 54-101).
SceneContentFrame ==
    /\ cursor > 0
    /\ Current = SceneContentCb
    /\ LET start == IF startTime = Null THEN clock ELSE startTime[1]
           el == clock - start
           r == Raw(el)
           e == Smootherstep(r)
           rep == ShouldReport(cachedProgress, e)
           jp == e
           np == NinoProgress(e, Unit)
           w == SceneWrites(attached)
       IN  /\ startTime' = <<start>>
           /\ elapsed' = <<el>>
           /\ raw' = r
           /\ eased' = e
           /\ reported' = rep
           /\ cachedProgress' = IF rep THEN e ELSE cachedProgress
           \* onProgress(eased) is handleProgress: setProgress(value)
           /\ progress' = IF rep THEN e ELSE progress
           /\ dirty' = (dirty \/ rep)
           /\ jaxProgress' = jp
           /\ ninoProgress' = np
           /\ node' = [n \in Nodes |->
                         IF n \in w THEN SceneTransform(n, e, jp, np, el, delta)
                         ELSE node[n]]
           /\ written' = w
           /\ access' = access \cup {<<SceneContentCb, n, "w">> : n \in w}
    /\ Advance
    /\ UNCHANGED <<clock, delta, subscribers, attached, overlay, handleProgress, curve>>
    /\ UNCHANGED builderVars

\* GrassField's useFrame callback (lines 263-269): sways the mesh by the clock.
GrassFieldFrame ==
    /\ cursor > 0
    /\ Current = GrassFieldCb
    /\ IF GrassMesh \in attached
       THEN /\ node' = [node EXCEPT ![GrassMesh] = <<clock>>]
            /\ access' = access \cup {<<GrassFieldCb, GrassMesh, "w">>}
       ELSE UNCHANGED <<node, access>>
    /\ Advance
    /\ UNCHANGED <<clock, delta, subscribers, attached, startTime, cachedProgress,
                   elapsed, raw, eased, reported, jaxProgress, ninoProgress, written>>
    /\ UNCHANGED reactVars
    /\ UNCHANGED builderVars

\* A Wheel's useFrame callback (lines 432-436): rotation.x -= delta * 22.
WheelFrame(i) ==
    /\ cursor > 0
    /\ Current = WheelCb(i)
    /\ IF WheelMesh(i) \in attached
       THEN /\ node' = [node EXCEPT ![WheelMesh(i)] = <<node[WheelMesh(i)][1] - delta * 22>>]
            /\ access' = access \cup {<<WheelCb(i), WheelMesh(i), "w">>}
       ELSE UNCHANGED <<node, access>>
    /\ Advance
    /\ UNCHANGED <<clock, delta, subscribers, attached, startTime, cachedProgress,
                   elapsed, raw, eased, reported, jaxProgress, ninoProgress, written>>
    /\ UNCHANGED reactVars
    /\ UNCHANGED builderVars

\* AnimatedEyes' useFrame callback (lines 405-414): blink and tilt by the clock,
\* both eyes or neither.
AnimatedEyesFrame ==
    /\ cursor > 0
    /\ Current = AnimatedEyesCb
    /\ IF LeftEye \in attached /\ RightEye \in attached
       THEN /\ node' = [node EXCEPT ![LeftEye] = <<clock>>, ![RightEye] = <<clock>>]
            /\ access' = access \cup {<<AnimatedEyesCb, LeftEye, "w">>,
                                      <<AnimatedEyesCb, RightEye, "w">>}
       ELSE UNCHANGED <<node, access>>
    /\ Advance
    /\ UNCHANGED <<clock, delta, subscribers, attached, startTime, cachedProgress,
                   elapsed, raw, eased, reported, jaxProgress, ninoProgress, written>>
    /\ UNCHANGED reactVars
    /\ UNCHANGED builderVars

\* Mutant of DustAccess: the offset is applied to followRef's position in place.
DustAccessInPlace ==
    {<<DustEmitterCb, JaxGroup, "r">>, <<DustEmitterCb, JaxGroup, "w">>,
     <<DustEmitterCb, DustPoints, "w">>}

\* What DustEmitter's callback touches: it reads followRef's position and
\* writes the points.
DustAccess == {<<DustEmitterCb, JaxGroup, "r">>, <<DustEmitterCb, DustPoints, "w">>}

\* The position part of the followed group's transform (empty while the
\* group is where it was mounted).
FollowPosition(t) == IF t = <<>> THEN <<>> ELSE <<t[1]>>

\* DustEmitter's useFrame callback (lines 560-568): the points follow the
\* position of followRef (the Jax group), swayed by the clock.
DustEmitterFrame ==
    /\ cursor > 0
    /\ Current = DustEmitterCb
    /\ IF DustPoints \in attached /\ JaxGroup \in attached
       THEN /\ node' = [node EXCEPT ![DustPoints] = FollowPosition(node[JaxGroup]) \o <<clock>>]
            /\ access' = access \cup DustAccess
       ELSE UNCHANGED <<node, access>>
    /\ Advance
    /\ UNCHANGED <<clock, delta, subscribers, attached, startTime, cachedProgress,
                   elapsed, raw, eased, reported, jaxProgress, ninoProgress, written>>
    /\ UNCHANGED reactVars
    /\ UNCHANGED builderVars

\* SceneCanvas re-renders after a setProgress (lines 649-662): the overlay is
\* rendered from the new progress; SceneContent re-renders with it, its refs,
\* its curve and the onProgress callback kept by useRef, useMemo(.., []) and
\* useCallback(.., []).
Render ==
    /\ cursor = 0
    /\ dirty
    /\ dirty' = FALSE
    /\ overlay' = SceneOverlay(progress)
    /\ handleProgress' = UseMemo(handleProgress, FALSE)
    /\ curve' = UseMemo(curve, FALSE)
    /\ startTime' = UseRef(startTime, Null)
    /\ cachedProgress' = UseRef(cachedProgress, 0)
    /\ UNCHANGED <<clock, delta, subscribers, cursor, attached, elapsed, raw, eased,
                   reported, jaxProgress, ninoProgress, node, written, access, progress>>
    /\ UNCHANGED builderVars

Next ==
    \/ BeginFrame
    \/ SceneContentFrame
    \/ GrassFieldFrame
    \/ \E i \in Wheels : WheelFrame(i)
    \/ AnimatedEyesFrame
    \/ DustEmitterFrame
    \/ Render

vars == <<sceneVars, builderVars>>

Spec == Init /\ [][Next]_vars

\* For the claims about what eventually happens: the scene as React mounts it
\* (every ref attached), frames keep being rendered with the clock moving on,
\* every started frame runs to its end, and React performs the re-render a
\* setProgress scheduled.
InitMounted == Init /\ attached = SceneRefs \cup OtherRefs

FairSpec ==
    /\ InitMounted
    /\ [][Next]_vars
    /\ WF_vars(Next)
    /\ SF_vars(BeginFrame /\ clock' > clock)
    /\ SF_vars(Render)

\* =========================================================== the builders
\* The scene at rest, for the specifications that run one builder alone.
SceneIdle ==
    /\ InitFrame
    /\ subscribers = ChildCallbacks \o <<SceneContentCb>>
    /\ attached = SceneRefs \cup OtherRefs
    /\ InitReact

\* ------------------------------------------------- Nino's lag on its own
\* Lines 68-69 applied to an eased value in [0, 1] (ninoIn / EasedGrid).
NinoApply ==
    /\ ninoOut = Null
    /\ ninoOut' = [jax |-> ninoIn, nino |-> NinoProgress(ninoIn, EasedGrid)]
    /\ UNCHANGED <<ninoIn, sceneVars, grassVars, stoneVars, roadVars>>

InitNinoSpec ==
    /\ SceneIdle
    /\ ninoIn \in 0 .. EasedGrid
    /\ ninoOut = Null
    /\ InitGrass /\ InitStones /\ InitRoad

SpecNino == InitNinoSpec /\ [][NinoApply]_vars

\* ------------------------------------------------------ the generator
\* createRandom(seed)() returns (value - 1) / 2147483646 with value in
\* 1 .. 2147483646: a number in [0, 1).  The model draws k / RandGrid.
RandValues == 0 .. RandGrid - 1

\* (Math.cos(angle), Math.sin(angle)) for angle = rand() * 2 pi: a point of
\* the unit circle.  The model draws among the points with coordinates in
\* fifths, as <<5 cos, 5 sin>>.
Directions ==
    { d \in (-5 .. 5) \X (-5 .. 5) : d[1] * d[1] + d[2] * d[2] = 25 }

\* ------------------------------------------- GrassField's placement loop
\* x = cos(angle) * dist, z = sin(angle) * dist with dist = rand() * 7.3, as
\* numerators over 50 * RandGrid.
GrassCandidate(d, k) == [x |-> d[1] * 73 * k, z |-> d[2] * 73 * k]

\* Math.abs(z) < 1.1 && x > -5.5 && x < 6.4
GrassInCorridor(c) ==
    /\ Abs(c.z) < 55 * RandGrid
    /\ c.x > -275 * RandGrid
    /\ c.x < 320 * RandGrid

\* Mutant of GrassFilledAfter: the counter advances on a dropped candidate too.
GrassFilledAfterAlways(f, rejected) == f + 1

\* The fill counter after an iteration: filled++ is reached only past the
\* continue.
GrassFilledAfter(f, rejected) == IF rejected THEN f ELSE f + 1

\* The effect starts (lines 236-243): without a mesh it returns at once.
GrassEffect ==
    /\ grassPc = "effect"
    /\ grassPc' = IF grassMounted THEN "while" ELSE "done"
    /\ filled' = 0
    /\ UNCHANGED <<grassMounted, matrixCount, lastIndex, grassLast, needsUpdate>>
    /\ UNCHANGED <<sceneVars, ninoVars, stoneVars, roadVars>>

\* while (filled < instances) (line 244): into the body with fresh locals, or
\* past the loop (line 260).
GrassWhile ==
    /\ grassPc = "while"
    /\ grassLast' = Null
    /\ IF filled < instances
       THEN grassPc' = "body" /\ UNCHANGED needsUpdate
       ELSE grassPc' = "done" /\ needsUpdate' = TRUE
    /\ UNCHANGED <<grassMounted, filled, matrixCount, lastIndex>>
    /\ UNCHANGED <<sceneVars, ninoVars, stoneVars, roadVars>>

\* The loop's body (lines 245-258): two draws make the candidate; inside the
\* corridor it is dropped (continue), otherwise two more draws size and turn
\* it and setMatrixAt(filled, ..) stores it.
GrassBody ==
    /\ grassPc = "body"
    /\ \E d \in Directions, k \in RandValues :
         LET c == GrassCandidate(d, k)
             rejected == GrassInCorridor(c)
         IN  /\ grassLast' = [x |-> c.x, z |-> c.z, placed |-> ~rejected]
             /\ filled' = GrassFilledAfter(filled, rejected)
             /\ matrixCount' = IF rejected THEN matrixCount ELSE matrixCount + 1
             /\ lastIndex' = IF rejected THEN lastIndex ELSE <<filled>>
    /\ grassPc' = "while"
    /\ UNCHANGED <<grassMounted, needsUpdate>>
    /\ UNCHANGED <<sceneVars, ninoVars, stoneVars, roadVars>>

InitGrassSpec ==
    /\ SceneIdle
    /\ InitNino /\ InitStones /\ InitRoad
    /\ grassPc = "effect"
    /\ grassMounted \in BOOLEAN
    /\ filled = 0
    /\ matrixCount = 0
    /\ lastIndex = Null
    /\ grassLast = Null
    /\ needsUpdate = FALSE

NextGrass == GrassEffect \/ GrassWhile \/ GrassBody

\* The loop keeps running, and the generator keeps producing candidates
\* outside the corridor.
SpecGrass ==
    /\ InitGrassSpec
    /\ [][NextGrass]_vars
    /\ WF_vars(NextGrass)
    /\ SF_vars(GrassBody /\ filled' > filled)

\* ------------------------------------------------------- StoneScatter
\* x = cos(angle) * dist, z = sin(angle) * dist with dist = 1.6 + rand() * 6.5,
\* as numerators over 50 * RandGrid.
StoneCandidate(d, k) ==
    [x |-> d[1] * (16 * RandGrid + 65 * k), z |-> d[2] * (16 * RandGrid + 65 * k)]

\* Math.abs(z) < 0.9 && x > -4.5 && x < 5.7
StoneInCorridor(c) ==
    /\ Abs(c.z) < 45 * RandGrid
    /\ c.x > -225 * RandGrid
    /\ c.x < 285 * RandGrid

\* scale = 0.18 + rand() * 0.32, as a numerator over 100 * ScaleGrid.
StoneScale(j) == 18 * ScaleGrid + 32 * j

\* Mutant of StoneNextIndex: a dropped candidate is retried.
StoneNextIndexRetry(i, pushed) == IF pushed THEN i + 1 ELSE i

\* The loop index after an iteration: i++ whether the candidate was pushed or
\* dropped.
StoneNextIndex(i, pushed) == i + 1

\* i < count (line 287): into the body with fresh locals, or the list is
\* returned (line 300).
StoneFor ==
    /\ stonePc = "for"
    /\ stoneLast' = Null
    /\ stonePc' = IF stoneI < stoneAttempts THEN "body" ELSE "done"
    /\ UNCHANGED <<stoneI, stoneCount, stoneRejected, stoneDraws>>
    /\ UNCHANGED <<sceneVars, ninoVars, grassVars, roadVars>>

\* The loop's body and its i++ (lines 288-298): two draws make the candidate;
\* inside the corridor it is dropped (continue), otherwise a third draw sizes
\* it and it is pushed.
StoneBody ==
    /\ stonePc = "body"
    /\ \E d \in Directions, k \in RandValues :
         LET c == StoneCandidate(d, k)
         IN  IF StoneInCorridor(c)
             THEN /\ stoneRejected' = stoneRejected + 1
                  /\ stoneDraws' = stoneDraws + 2
                  /\ UNCHANGED <<stoneCount, stoneLast>>
             ELSE \E j \in 0 .. ScaleGrid - 1 :
                  /\ stoneLast' = [x |-> c.x, z |-> c.z, scale |-> StoneScale(j)]
                  /\ stoneCount' = stoneCount + 1
                  /\ stoneDraws' = stoneDraws + 3
                  /\ UNCHANGED stoneRejected
    /\ stoneI' = StoneNextIndex(stoneI, stoneLast' # Null)
    /\ stonePc' = "for"
    /\ UNCHANGED <<sceneVars, ninoVars, grassVars, roadVars>>

InitStonesSpec == SceneIdle /\ InitBuilders

NextStones == StoneFor \/ StoneBody

SpecStones == InitStonesSpec /\ [][NextStones]_vars

\* ----------------------------------------------------------------- Road
\* Curve parameters are numerators over divisions - 1.
RoadParamDen == divisions - 1

\* Mutant of RoadEnd: the Math.min(.., 1) is missing.
RoadEndUnclamped(i) == i + 1

\* t = i / (divisions - 1)
RoadStart(i) == i
\* Math.min(t + 1 / (divisions - 1), 1)
RoadEnd(i) == Min(RoadStart(i) + 1, RoadParamDen)

\* The head of an iteration of for (i = 0; i < divisions; i++) (lines 149-179):
\* the two curve points and the quad's six vertices.
RoadQuad ==
    /\ roadPc = "quad"
    /\ roadI < divisions
    /\ roadQuads' = Append(roadQuads, [start |-> RoadStart(roadI), end |-> RoadEnd(roadI)])
    /\ vertices' = vertices + 18
    /\ roadFace' = 0
    /\ roadPc' = "normals"
    /\ UNCHANGED <<roadI, normals, uvs, roadBuffer>>
    /\ UNCHANGED <<sceneVars, ninoVars, grassVars, stoneVars>>

\* One iteration of for (face = 0; face < 6; face++) (lines 181-183).
RoadNormal ==
    /\ roadPc = "normals"
    /\ roadFace < 6
    /\ normals' = normals + 3
    /\ roadFace' = roadFace + 1
    /\ UNCHANGED <<roadPc, roadI, roadQuads, vertices, uvs, roadBuffer>>
    /\ UNCHANGED <<sceneVars, ninoVars, grassVars, stoneVars>>

\* The quad's uvs and i++ (lines 185-193).
RoadUvs ==
    /\ roadPc = "normals"
    /\ ~(roadFace < 6)
    /\ uvs' = uvs + 12
    /\ roadI' = roadI + 1
    /\ roadPc' = "quad"
    /\ UNCHANGED <<roadFace, roadQuads, vertices, normals, roadBuffer>>
    /\ UNCHANGED <<sceneVars, ninoVars, grassVars, stoneVars>>

\* The buffer geometry (lines 195-200): attributes of item size 3, 3 and 2.
RoadBuild ==
    /\ roadPc = "quad"
    /\ ~(roadI < divisions)
    /\ roadBuffer' = [position |-> vertices \div 3, normal |-> normals \div 3, uv |-> uvs \div 2]
    /\ roadPc' = "done"
    /\ UNCHANGED <<roadI, roadFace, roadQuads, vertices, normals, uvs>>
    /\ UNCHANGED <<sceneVars, ninoVars, grassVars, stoneVars>>

InitRoadSpec == SceneIdle /\ InitBuilders

NextRoad == RoadQuad \/ RoadNormal \/ RoadUvs \/ RoadBuild

SpecRoad == InitRoadSpec /\ [][NextRoad]_vars

\* ========================================================== the claims
\* A step of SceneContent's callback.
SceneStep == cursor > 0 /\ Current = SceneContentCb /\ cursor' # cursor

\* C1: raw progress is clamp(elapsed / 8, 0, 1): it lies in [0, 1], is 1 on
\* every frame whose elapsed time is at least 8 s, never decreases from one
\* frame to the next, and once 1 stays 1 (no loop, no restart).
C1_RawProgress ==
    /\ [](elapsed # Null =>
            /\ raw >= 0 /\ raw <= Denom
            /\ (elapsed[1] < Denom => raw = elapsed[1])
            /\ (elapsed[1] >= ANIMATION_DURATION * TicksPerSecond => raw = Denom))
    /\ [][raw' >= raw /\ (raw = Denom => raw' = Denom)]_vars

\* C1 witness: a frame past the end of the animation, after an earlier frame
\* had already completed it.
C1_Witness == elapsed # Null /\ elapsed[1] > Denom /\ raw = Denom /\ delta > 0

\* C3: every write to a scene-graph node is made by the one callback that
\* owns the node, and the only access a callback makes to a node it does not
\* own is DustEmitter reading the Jax group.
C3_Owner(n) ==
    CASE n \in {JaxGroup, NinoGroup, ToolBagGroup, Camera} -> SceneContentCb
      [] n = GrassMesh -> GrassFieldCb
      [] n \in {LeftEye, RightEye} -> AnimatedEyesCb
      [] n = DustPoints -> DustEmitterCb
      [] OTHER -> WheelCb(n[2])

C3_SingleWriter ==
    \A a \in access :
        /\ a[3] = "w" => a[1] = C3_Owner(a[2])
        /\ a[1] # C3_Owner(a[2]) => a = <<DustEmitterCb, JaxGroup, "r">>

\* C3 witness: every node has been written and DustEmitter has read the Jax
\* group.
C3_Witness ==
    /\ \A n \in Nodes : <<C3_Owner(n), n, "w">> \in access
    /\ <<DustEmitterCb, JaxGroup, "r">> \in access

\* C4: in every frame SceneContent writes each of the three groups iff its
\* own ref is attached (a detached group keeps its transform), writes the
\* camera always, and the transforms come from the frame's elapsed time and
\* eased progress, reported or not.
C4_FrameEffect ==
    [][SceneStep =>
        /\ \A n \in SceneRefs : n \in written' <=> n \in attached
        /\ Camera \in written'
        /\ \A n \in SceneRefs \ attached : node'[n] = node[n]
        /\ JaxGroup \in attached => node'[JaxGroup] = <<eased', elapsed'[1]>>
        /\ NinoGroup \in attached =>
              node'[NinoGroup] = ninoProgress' \o <<eased', elapsed'[1]>>
        /\ ToolBagGroup \in attached => node'[ToolBagGroup] = <<eased', elapsed'[1]>>
        /\ node'[Camera] = <<eased', delta>>
        /\ eased' = Smootherstep(Raw(elapsed'[1]))
      ]_vars

\* C4 witness: a frame with all three refs detached that reported nothing,
\* though eased had moved on, and still moved the camera.
C4_Witness ==
    /\ elapsed # Null
    /\ attached \cap SceneRefs = {}
    /\ written = {Camera}
    /\ node[Camera] = <<eased, delta>>
    /\ ~reported
    /\ eased > cachedProgress

\* C7: a frame invokes onProgress iff eased differs from the last reported
\* value by more than 0.001; a report hands over eased, which is larger than
\* every value reported before; after every frame the reported value, which
\* is the progress SceneCanvas holds, is within 0.001 of eased, and in [0, 1].
\* (For integers d and U, d / U > 0.001 iff d > U \div 1000.)
C7_Throttle ==
    /\ [](/\ progress = cachedProgress
          /\ progress >= 0 /\ progress <= Unit
          /\ elapsed # Null =>
                /\ eased - cachedProgress <= Unit \div 1000
                /\ cachedProgress - eased <= Unit \div 1000)
    /\ [][SceneStep =>
            /\ reported' <=> (\/ eased' - cachedProgress > Unit \div 1000
                              \/ cachedProgress - eased' > Unit \div 1000)
            /\ reported' => progress' = eased' /\ progress' > progress
            /\ ~reported' => progress' = progress
         ]_vars

\* C7 witness: a frame whose eased had moved, by no more than 0.001, and that
\* did not report.
C7_Witness == elapsed # Null /\ ~reported /\ eased > cachedProgress /\ cachedProgress > 0

\* C8 (safety part and completion): the overlay is one bubble, JAX on the
\* left or NINO on the right; once rendered from the current progress it is
\* JAX iff progress < 0.5; it starts as JAX and never goes back from NINO to
\* JAX; and if frames keep coming it ends up NINO for good.
C8_Overlay ==
    /\ overlay.speaker = "JAX"
    /\ [](/\ overlay \in {[speaker |-> "JAX", align |-> "left"],
                         [speaker |-> "NINO", align |-> "right"]}
          /\ ~dirty => (overlay.speaker = "JAX" <=> 2 * progress < Unit))
    /\ [][overlay.speaker = "NINO" => overlay'.speaker = "NINO"]_vars
    /\ <>[](overlay.speaker = "NINO")

\* C8 witness: the overlay, re-rendered after the animation's second half
\* began, shows NINO.
C8_Witness == overlay.speaker = "NINO" /\ ~dirty /\ 2 * progress >= Unit /\ progress < Unit

\* C9: the start time is null until the first frame, which sets it to that
\* frame's clock time (elapsed 0); no later frame and no re-render changes
\* it, elapsed is never negative, and re-renders keep the onProgress callback
\* and the curve.
C9_StartLatch ==
    /\ startTime = Null
    /\ [](/\ startTime = Null <=> elapsed = Null
          /\ elapsed # Null => elapsed[1] >= 0 /\ elapsed[1] <= clock - startTime[1])
    /\ [][/\ startTime = Null /\ startTime' # Null =>
                startTime' = <<clock'>> /\ elapsed' = <<0>>
          /\ startTime # Null => startTime' = startTime
          /\ handleProgress' = handleProgress
          /\ curve' = curve
         ]_vars

\* C9 witness: progress reports have been re-rendered (the overlay has
\* switched) and the start time is still the first frame's.
C9_Witness ==
    /\ overlay.speaker = "NINO"
    /\ startTime = <<1>>
    /\ elapsed[1] = clock - 1

\* C2: with jaxProgress = eased and ninoProgress = min(max(eased - 0.16, 0)
\* * 0.94, 0.98), for every eased in [0, 1]: 0 <= ninoProgress <= jaxProgress
\* <= 1, ninoProgress < jaxProgress whenever jaxProgress > 0, ninoProgress = 0
\* while eased <= 0.16, and ninoProgress <= 0.98.  (Values are compared as
\* numerators over 10000 * EasedGrid.)
C2_NinoBehindJax ==
    ninoOut # Null =>
        LET jp == 10000 * ninoOut.jax
            np == 8 * (1250 * ninoOut.nino[1] + ninoOut.nino[2])
            one == 10000 * EasedGrid
        IN  /\ ninoOut.jax = ninoIn
            /\ ninoOut.nino[2] >= 0 /\ ninoOut.nino[2] < 1250
            /\ np = Min(Max(100 * ninoIn - 16 * EasedGrid, 0) * 94, 98 * 100 * EasedGrid)
            /\ 0 <= np /\ np <= jp /\ jp <= one
            /\ jp > 0 => np < jp
            /\ 100 * ninoIn <= 16 * EasedGrid => np = 0
            /\ 100 * np <= 98 * one

\* C2 witness: an eased value past 0.16, where Nino has left the start and
\* is behind Jax.
C2_Witness ==
    /\ ninoOut # Null
    /\ 100 * ninoIn > 16 * EasedGrid
    /\ ninoOut.nino[1] > 0
    /\ ninoOut.nino[1] < ninoOut.jax

\* C5: with the mesh mounted the placement loop ends with exactly 600
\* setMatrixAt calls, the n-th of them (from 0) at index n, so indices 0..599
\* are written once each in increasing order; every placed instance is
\* outside the corridor |z| < 1.1, -5.5 < x < 6.4 and within 7.3 of the
\* origin; a dropped candidate writes nothing and leaves the counter; and the
\* loop terminates when candidates outside the corridor keep coming.
\* (Positions are numerators over 50 * RandGrid.)
C5_GrassFill ==
    /\ [](/\ matrixCount = filled
          /\ filled <= instances
          /\ ~grassMounted => matrixCount = 0
          /\ grassPc = "done" /\ grassMounted =>
                matrixCount = 600 /\ lastIndex = <<599>> /\ needsUpdate
          /\ grassLast # Null /\ grassLast.placed =>
                /\ ~(/\ 10 * Abs(grassLast.z) < 11 * 50 * RandGrid
                     /\ 10 * grassLast.x > -55 * 50 * RandGrid
                     /\ 10 * grassLast.x < 64 * 50 * RandGrid)
                /\ 100 * (grassLast.x * grassLast.x + grassLast.z * grassLast.z)
                      <= 73 * 73 * 50 * RandGrid * 50 * RandGrid)
    /\ [][/\ matrixCount' # matrixCount =>
                /\ matrixCount' = matrixCount + 1
                /\ lastIndex' = <<matrixCount>>
                /\ grassLast'.placed
          /\ grassPc = "body" /\ ~grassLast'.placed =>
                filled' = filled /\ matrixCount' = matrixCount /\ lastIndex' = lastIndex
         ]_vars
    /\ <>(grassPc = "done")

\* C5 witness: the loop has ended on a mounted mesh with all 600 written.
C5_Witness == grassPc = "done" /\ grassMounted /\ matrixCount = instances /\ needsUpdate

\* C6: StoneScatter makes exactly 80 attempts, one per iteration, and never
\* retries: the list holds 80 minus the dropped candidates; a dropped
\* candidate costs two draws and a pushed one three; every pushed stone is
\* outside the corridor |z| < 0.9, -4.5 < x < 5.7, at a distance in
\* [1.6, 8.1) and of scale in [0.18, 0.5).  (Positions are numerators over
\* 50 * RandGrid, scales over 100 * ScaleGrid.)
C6_StoneScatter ==
    /\ [](/\ stoneCount + stoneRejected = stoneI
          /\ stoneI <= 80
          /\ stoneDraws = 2 * stoneRejected + 3 * stoneCount
          /\ stonePc = "done" => stoneI = 80 /\ stoneCount = 80 - stoneRejected
          /\ stoneLast # Null =>
                /\ ~(/\ 10 * Abs(stoneLast.z) < 9 * 50 * RandGrid
                     /\ 10 * stoneLast.x > -45 * 50 * RandGrid
                     /\ 10 * stoneLast.x < 57 * 50 * RandGrid)
                /\ stoneLast.x * stoneLast.x + stoneLast.z * stoneLast.z
                      >= 80 * RandGrid * 80 * RandGrid
                /\ stoneLast.x * stoneLast.x + stoneLast.z * stoneLast.z
                      < 405 * RandGrid * 405 * RandGrid
                /\ stoneLast.scale >= 18 * ScaleGrid
                /\ stoneLast.scale < 50 * ScaleGrid)
    /\ [][stonePc = "body" =>
            /\ stoneI' = stoneI + 1
            /\ stoneLast' = Null =>
                  stoneCount' = stoneCount /\ stoneDraws' = stoneDraws + 2
            /\ stoneLast' # Null =>
                  stoneCount' = stoneCount + 1 /\ stoneDraws' = stoneDraws + 3
         ]_vars

\* C6 witness: the list is returned with fewer than 80 stones, some dropped
\* and some pushed.
C6_Witness == stonePc = "done" /\ stoneCount > 0 /\ stoneRejected > 0 /\ stoneCount < 80

====
